---- MODULE Spec2Model ----
(***************************************************************************)
(* worcoder-js: a string is turned into UTF-8 bytes, the bytes into        *)
(* base-1024 digits, the digits get a 3-digit RS1024 checksum, and every   *)
(* digit is written as the Dictionary word of that index; decoding         *)
(* reverses this after verifying the checksum.                             *)
(*                                                                         *)
(* Strings are sequences of UTF-16 code units (JavaScript strings), bytes  *)
(* are integers 0..255, digits are integers 0..1023.  A BigInt is kept as  *)
(* its binary expansion, most significant bit first, without leading       *)
(* zeros (so 0n is the empty sequence): the only BigInt operations the     *)
(* codec uses are shifts, masks and additions of a value below the shift.  *)
(***************************************************************************)
EXTENDS Integers, Sequences, FiniteSets, TLC

\* ------------------------------------------------------------------------
\* Bounds of the model
\* ------------------------------------------------------------------------
MaxStrLen == 3      \* code units of an input string
MaxWords == 5       \* words of a word list handed to wordsToStr by a caller
MaxDataLen == 3     \* data digits given to create_checksum directly
MaxCustomLen == 2   \* customization digits given to create_checksum
MaxByteLen == 4     \* bytes given to the byte/digit codec directly
MaxTamperLen == 2   \* code units of a string whose mnemonic is then altered
MaxEdits == 1       \* changes made to a mnemonic string before it is decoded
MaxTokenLen == 5    \* code units of a token given to heuristicWord
MaxCallerWords == 4 \* words of a word list whose decoding failure is handled
MaxCleanupLen == 5  \* code units of a string given to cleanupMnemonic directly

\* ------------------------------------------------------------------------
\* Sequence helpers (Array.prototype.reverse, slice, concat)
\* ------------------------------------------------------------------------
Reverse(s) == [i \in 1..Len(s) |-> s[Len(s) + 1 - i]]

SeqsUpTo(S, n) == UNION {[1..k -> S] : k \in 0..n}

Pow2(k) == 2 ^ k

\* ------------------------------------------------------------------------
\* BigInt arithmetic of the codec
\* ------------------------------------------------------------------------
BigZero == <<>>

RECURSIVE Norm(_)
Norm(bits) ==
    IF bits = <<>> THEN <<>>
    ELSE IF bits[1] = 0 THEN Norm(Tail(bits))
    ELSE bits

\* the k-bit binary expansion of v, 0 <= v < 2^k
ToBits(v, k) == [j \in 1..k |-> (v \div Pow2(k - j)) % 2]

\* (big << k) + v  and  big * 2^k + v,  for 0 <= v < 2^k
ShlAdd(big, k, v) == Norm(big \o ToBits(v, k))

RECURSIVE BitsValue(_)
BitsValue(bits) ==
    IF bits = <<>> THEN 0
    ELSE 2 * BitsValue(SubSeq(bits, 1, Len(bits) - 1)) + bits[Len(bits)]

\* big % 2^k  and  big & (2^k - 1), as a Number
LowBits(big, k) ==
    IF Len(big) <= k THEN BitsValue(big)
    ELSE BitsValue(SubSeq(big, Len(big) - k + 1, Len(big)))

\* big >> k  and  big / 2^k
Shr(big, k) ==
    IF Len(big) <= k THEN BigZero ELSE SubSeq(big, 1, Len(big) - k)

\* ------------------------------------------------------------------------
\* rs1024.js
\* ------------------------------------------------------------------------
CHECKSUM_LENGTH_WORDS == 3

GEN == << 14737472, 29474944, 58949888, 117899776, 235798537,
          470557714, 940076068, 814808136, 565311632, 66318624 >>

\* bitwise XOR of two 5-bit values, tabulated once
RECURSIVE XorBits(_, _, _)
XorBits(a, b, n) ==
    IF n = 0 THEN 0
    ELSE ((a + b) % 2) + 2 * XorBits(a \div 2, b \div 2, n - 1)

Xor5 == [a \in 0..31 |-> [b \in 0..31 |-> XorBits(a, b, 5)]]

\* a ^ b for 0 <= a, b < 2^30, five bits at a time
Xor(a, b) ==
      Xor5[a % 32][b % 32]
    + 32 * Xor5[(a \div 32) % 32][(b \div 32) % 32]
    + 1024 * Xor5[(a \div 1024) % 32][(b \div 1024) % 32]
    + 32768 * Xor5[(a \div 32768) % 32][(b \div 32768) % 32]
    + 1048576 * Xor5[(a \div 1048576) % 32][(b \div 1048576) % 32]
    + 33554432 * Xor5[(a \div 33554432) % 32][(b \div 33554432) % 32]

\* for (i = 0; i < 10; i++) if ((top >> i) & 1) chk ^= GEN[i]
RECURSIVE genLoop(_, _, _)
genLoop(chk, top, i) ==
    IF i = 10 THEN chk
    ELSE genLoop(IF (top \div Pow2(i)) % 2 = 1 THEN Xor(chk, GEN[i + 1]) ELSE chk,
                 top, i + 1)

\* the loop above started from 0, for every value of top: XOR being
\* associative, the loop started from chk yields chk ^ genFold[top]
genFold == [top \in 0..1023 |-> genLoop(0, top, 0)]

polymodStep(chk, v) ==
    LET top == chk \div 1048576
    IN  Xor(Xor((chk % 1048576) * 1024, v), genFold[top])

RECURSIVE polymodFrom(_, _, _)
polymodFrom(chk, values, i) ==
    IF i > Len(values) THEN chk
    ELSE polymodFrom(polymodStep(chk, values[i]), values, i + 1)

_polymod(values) == polymodFrom(1, values, 1)

\* create_checksum without the final "^ 1n"
create_checksum_noFlip(data, custom) ==
    LET values == custom \o data \o [i \in 1..CHECKSUM_LENGTH_WORDS |-> 0]
        poly == _polymod(values)
    IN  [k \in 1..CHECKSUM_LENGTH_WORDS |->
            (poly \div Pow2(10 * (CHECKSUM_LENGTH_WORDS - k))) % 1024]

create_checksum(data, custom) ==
    LET values == custom \o data \o [i \in 1..CHECKSUM_LENGTH_WORDS |-> 0]
        poly == Xor(_polymod(values), 1)
    IN  [k \in 1..CHECKSUM_LENGTH_WORDS |->
            (poly \div Pow2(10 * (CHECKSUM_LENGTH_WORDS - k))) % 1024]

\* verify_checksum comparing only the low 20 bits of the polymod
verify_checksum_low20(data, custom) == _polymod(custom \o data) % 1048576 = 1

verify_checksum(data, custom) == _polymod(custom \o data) = 1

\* ------------------------------------------------------------------------
\* wordlist.js: the Dictionary, 1024 distinct lower-case ASCII words.  Entry 0
\* and the entries the cleanup rules name are spelled out; every other entry
\* is a four-letter word made from its index.
\* ------------------------------------------------------------------------
namedWords == << <<97, 99, 97, 100, 101, 109, 105, 99>>,     \* academic
                 <<101, 110, 106, 111, 121>>,                \* enjoy
                 <<101, 110, 102, 111, 114, 99, 101>>,       \* enforce
                 <<101, 110, 108, 97, 114, 103, 101>>,       \* enlarge
                 <<101, 110, 100, 108, 101, 115, 115>>,      \* endless
                 <<115, 112, 105, 116>>,                     \* spit
                 <<105, 109, 112, 108, 121>>,                \* imply
                 <<102, 105, 116, 110, 101, 115, 115>> >>    \* fitness

wordlist ==
    [i \in 0..1023 |->
        IF i < Len(namedWords) THEN namedWords[i + 1]
        ELSE << 119 + (i \div 256), 97 + ((i \div 64) % 4),
                97 + ((i \div 8) % 8), 97 + (i % 8) >>]

\* the least element of a non-empty set of positions
firstOf(S) == CHOOSE i \in S : \A j \in S : i <= j

\* the first position of every word of the wordlist
firstIndex ==
    [w \in {wordlist[i] : i \in DOMAIN wordlist} |->
        firstOf({i \in DOMAIN wordlist : wordlist[i] = w})]

\* wordlist.indexOf(w)
indexOf(w) == IF w \in DOMAIN firstIndex THEN firstIndex[w] ELSE -1

\* ------------------------------------------------------------------------
\* encoding.js: strings and bytes (TextEncoder, TextDecoder)
\* ------------------------------------------------------------------------
IsHighSurrogate(u) == u \in 55296..56319
IsLowSurrogate(u) == u \in 56320..57343

\* the code points of a string; a surrogate without its partner becomes U+FFFD
RECURSIVE toCodePoints(_, _)
toCodePoints(s, i) ==
    IF i > Len(s) THEN <<>>
    ELSE IF IsHighSurrogate(s[i]) /\ i < Len(s) /\ IsLowSurrogate(s[i + 1])
         THEN <<65536 + (s[i] - 55296) * 1024 + (s[i + 1] - 56320)>>
              \o toCodePoints(s, i + 2)
    ELSE IF IsHighSurrogate(s[i]) \/ IsLowSurrogate(s[i])
         THEN <<65533>> \o toCodePoints(s, i + 1)
    ELSE <<s[i]>> \o toCodePoints(s, i + 1)

utf8Encode(cp) ==
    IF cp < 128 THEN <<cp>>
    ELSE IF cp < 2048 THEN <<192 + (cp \div 64), 128 + (cp % 64)>>
    ELSE IF cp < 65536
         THEN <<224 + (cp \div 4096), 128 + ((cp \div 64) % 64), 128 + (cp % 64)>>
    ELSE <<240 + (cp \div 262144), 128 + ((cp \div 4096) % 64),
           128 + ((cp \div 64) % 64), 128 + (cp % 64)>>

RECURSIVE encodeAll(_, _)
encodeAll(cps, i) ==
    IF i > Len(cps) THEN <<>> ELSE utf8Encode(cps[i]) \o encodeAll(cps, i + 1)

\* new TextEncoder().encode(str)
stringToBytes(str) == encodeAll(toCodePoints(str, 1), 1)

\* the UTF-8 decoder with replacement: a malformed sequence yields U+FFFD and
\* the byte that ended it is read again
RECURSIVE utf8Decode(_, _, _, _, _, _, _)
utf8Decode(bytes, i, cp, seen, needed, lower, upper) ==
    IF i > Len(bytes) THEN (IF needed # 0 THEN <<65533>> ELSE <<>>)
    ELSE LET b == bytes[i] IN
         IF needed = 0 THEN
            IF b <= 127 THEN <<b>> \o utf8Decode(bytes, i + 1, 0, 0, 0, 128, 191)
            ELSE IF b \in 194..223
                 THEN utf8Decode(bytes, i + 1, b % 32, 0, 1, 128, 191)
            ELSE IF b \in 224..239
                 THEN utf8Decode(bytes, i + 1, b % 16, 0, 2,
                                 IF b = 224 THEN 160 ELSE 128,
                                 IF b = 237 THEN 159 ELSE 191)
            ELSE IF b \in 240..244
                 THEN utf8Decode(bytes, i + 1, b % 8, 0, 3,
                                 IF b = 240 THEN 144 ELSE 128,
                                 IF b = 244 THEN 143 ELSE 191)
            ELSE <<65533>> \o utf8Decode(bytes, i + 1, 0, 0, 0, 128, 191)
         ELSE IF b \notin lower..upper
              THEN <<65533>> \o utf8Decode(bytes, i, 0, 0, 0, 128, 191)
         ELSE IF seen + 1 = needed
              THEN <<(cp * 64) + (b % 64)>> \o utf8Decode(bytes, i + 1, 0, 0, 0, 128, 191)
         ELSE utf8Decode(bytes, i + 1, (cp * 64) + (b % 64), seen + 1, needed, 128, 191)

\* ignoreBOM is false by default: a leading U+FEFF is not part of the output
stripBOM(cps) == IF Len(cps) > 0 /\ cps[1] = 65279 THEN Tail(cps) ELSE cps

RECURSIVE fromCodePoints(_, _)
fromCodePoints(cps, i) ==
    IF i > Len(cps) THEN <<>>
    ELSE IF cps[i] < 65536 THEN <<cps[i]>> \o fromCodePoints(cps, i + 1)
    ELSE <<55296 + ((cps[i] - 65536) \div 1024), 56320 + ((cps[i] - 65536) % 1024)>>
         \o fromCodePoints(cps, i + 1)

\* new TextDecoder().decode(bytes)
bytesToString(bytes) ==
    fromCodePoints(stripBOM(utf8Decode(bytes, 1, 0, 0, 0, 128, 191)), 1)

\* ------------------------------------------------------------------------
\* encoding.js: bytes and base-1024 digits
\* ------------------------------------------------------------------------
\* for (const b of byteArray) bigVal = (bigVal << 8n) + BigInt(b)
RECURSIVE bytesFold(_, _, _)
bytesFold(bigVal, byteArray, i) ==
    IF i > Len(byteArray) THEN bigVal
    ELSE bytesFold(ShlAdd(bigVal, 8, byteArray[i]), byteArray, i + 1)

\* while (bigVal > 0n) { digits.push(bigVal % 1024n); bigVal = bigVal / 1024n }
RECURSIVE digitsLoop(_, _)
digitsLoop(bigVal, digits) ==
    IF bigVal = BigZero THEN digits
    ELSE digitsLoop(Shr(bigVal, 10), Append(digits, LowBits(bigVal, 10)))

\* bytesToBase1024 without "if (digits.length === 0) digits.push(0)"
bytesToBase1024_noZeroDigit(byteArray) ==
    Reverse(digitsLoop(bytesFold(BigZero, byteArray, 1), <<>>))

bytesToBase1024(byteArray) ==
    LET digits == digitsLoop(bytesFold(BigZero, byteArray, 1), <<>>)
    IN  Reverse(IF Len(digits) = 0 THEN Append(digits, 0) ELSE digits)

\* for (const digit of arr) bigVal = bigVal * 1024n + BigInt(digit)
RECURSIVE digitsFold(_, _, _)
digitsFold(bigVal, arr, i) ==
    IF i > Len(arr) THEN bigVal
    ELSE digitsFold(ShlAdd(bigVal, 10, arr[i]), arr, i + 1)

\* while (bigVal > 0n) { bytes.push(bigVal & 0xFFn); bigVal = bigVal >> 8n }
RECURSIVE bytesLoop(_, _)
bytesLoop(bigVal, bytes) ==
    IF bigVal = BigZero THEN bytes
    ELSE bytesLoop(Shr(bigVal, 8), Append(bytes, LowBits(bigVal, 8)))

\* base1024ToBytes without "bytes.reverse()"
base1024ToBytes_noReverse(arr) == bytesLoop(digitsFold(BigZero, arr, 1), <<>>)

base1024ToBytes(arr) == Reverse(bytesLoop(digitsFold(BigZero, arr, 1), <<>>))

\* ------------------------------------------------------------------------
\* encoding.js: strToWords, wordsToStr
\* ------------------------------------------------------------------------
\* strToWords with the checksum made from the bytes instead of the digits
strToWords_checksumOfBytes(s) ==
    LET bytes == stringToBytes(s)
        dataArr == bytesToBase1024(bytes)
        csumArr == create_checksum(bytes, <<>>)
        fullArr == dataArr \o csumArr
    IN  [i \in 1..Len(fullArr) |-> wordlist[fullArr[i]]]

strToWords(s) ==
    LET bytes == stringToBytes(s)
        dataArr == bytesToBase1024(bytes)
        csumArr == create_checksum(dataArr, <<>>)
        fullArr == dataArr \o csumArr
    IN  [i \in 1..Len(fullArr) |-> wordlist[fullArr[i]]]

\* what a call yields: a returned string, or a thrown Error with its message
\* (and the word the message quotes)
Returned(s) == [kind |-> "return", message |-> "", word |-> <<>>, value |-> s]
Thrown(m, w) == [kind |-> "throw", message |-> m, word |-> w, value |-> <<>>]
NoResult == [kind |-> "none", message |-> "", word |-> <<>>, value |-> <<>>]

NotEnoughWords == "Not enough words to contain data + checksum"
InvalidWord == "Invalid mnemonic word: '${w}'"
ChecksumError == "ChecksumError: invalid RS1024 checksum!"

\* the length check without its "+ 1"
tooFewWords_offByOne(ws) == Len(ws) < CHECKSUM_LENGTH_WORDS

\* if (words.length < CHECKSUM_LENGTH_WORDS + 1)
tooFewWords(ws) == Len(ws) < CHECKSUM_LENGTH_WORDS + 1

\* words.slice(0, -CHECKSUM_LENGTH_WORDS), words.slice(-CHECKSUM_LENGTH_WORDS)
dataWordsOf(ws) == SubSeq(ws, 1, Len(ws) - CHECKSUM_LENGTH_WORDS)
checksumWordsOf(ws) == SubSeq(ws, Len(ws) - CHECKSUM_LENGTH_WORDS + 1, Len(ws))

\* the positions of ws whose word is not in the wordlist
unknownAt(ws) == {i \in 1..Len(ws) : indexOf(ws[i]) = -1}

\* the checksum words resolved before the data words
firstInvalidWord_checksumFirst(dataWords, checksumWords) ==
    IF unknownAt(checksumWords) # {}
    THEN <<"word", checksumWords[firstOf(unknownAt(checksumWords))]>>
    ELSE IF unknownAt(dataWords) # {}
    THEN <<"word", dataWords[firstOf(unknownAt(dataWords))]>>
    ELSE <<"none">>

\* the two map() calls: the word of the first callback that throws, data words
\* before checksum words; <<"none">> when none throws
firstInvalidWord(dataWords, checksumWords) ==
    IF unknownAt(dataWords) # {}
    THEN <<"word", dataWords[firstOf(unknownAt(dataWords))]>>
    ELSE IF unknownAt(checksumWords) # {}
    THEN <<"word", checksumWords[firstOf(unknownAt(checksumWords))]>>
    ELSE <<"none">>

\* the verification's result ignored
isValid_unchecked(fullArr) == TRUE

\* const isValid = verify_checksum(fullArr, custom) with custom = []
isValid(fullArr) == verify_checksum(fullArr, <<>>)

wordsToStr(ws) ==
    IF tooFewWords(ws) THEN Thrown(NotEnoughWords, <<>>)
    ELSE LET dataWords == dataWordsOf(ws)
             checksumWords == checksumWordsOf(ws)
             bad == firstInvalidWord(dataWords, checksumWords)
         IN  IF bad[1] = "word" THEN Thrown(InvalidWord, bad[2])
             ELSE LET dataArr == [i \in 1..Len(dataWords) |-> indexOf(dataWords[i])]
                      csumArr == [i \in 1..Len(checksumWords) |-> indexOf(checksumWords[i])]
                      fullArr == dataArr \o csumArr
                  IN  IF ~isValid(fullArr)
                      THEN Thrown(ChecksumError, <<>>)
                      ELSE Returned(bytesToString(base1024ToBytes(dataArr)))

\* ------------------------------------------------------------------------
\* encoding.js: the string form (join, cleanupMnemonic, split)
\* ------------------------------------------------------------------------
\* Array.prototype.join(" ")
RECURSIVE join(_, _)
join(ws, i) ==
    IF i > Len(ws) THEN <<>>
    ELSE IF i = Len(ws) THEN ws[i]
    ELSE ws[i] \o <<32>> \o join(ws, i + 1)

\* String.prototype.split(" "): the pieces between single spaces, empty ones kept
RECURSIVE split(_, _, _)
split(s, i, piece) ==
    IF i > Len(s) THEN <<piece>>
    ELSE IF s[i] = 32 THEN <<piece>> \o split(s, i + 1, <<>>)
    ELSE split(s, i + 1, Append(piece, s[i]))

\* what trim() removes and \s matches: WhiteSpace and LineTerminator
IsWhiteSpace(u) ==
    \/ u \in {9, 10, 11, 12, 13, 32, 160, 5760, 8232, 8233, 8239, 8287, 12288, 65279}
    \/ u \in 8192..8202

RECURSIVE trimStart(_)
trimStart(s) ==
    IF s # <<>> /\ IsWhiteSpace(s[1]) THEN trimStart(Tail(s)) ELSE s

trim(s) == Reverse(trimStart(Reverse(trimStart(s))))

\* .replace(/\n/g, ' ')
replaceNewlines(s) == [i \in 1..Len(s) |-> IF s[i] = 10 THEN 32 ELSE s[i]]

\* .replace(/\s+/g, ' '): every maximal run of white space becomes one space
RECURSIVE collapseSpaces(_, _)
collapseSpaces(s, i) ==
    IF i > Len(s) THEN <<>>
    ELSE IF IsWhiteSpace(s[i])
         THEN (IF i > 1 /\ IsWhiteSpace(s[i - 1]) THEN <<>> ELSE <<32>>)
              \o collapseSpaces(s, i + 1)
    ELSE <<s[i]>> \o collapseSpaces(s, i + 1)

\* .toLowerCase(), on ASCII and Latin-1 letters
toLowerCase(s) ==
    [i \in 1..Len(s) |->
        IF s[i] \in 65..90 \/ (s[i] \in 192..222 /\ s[i] # 215)
        THEN s[i] + 32 ELSE s[i]]

\* .replace(/[-.,]/g, '')
RECURSIVE stripPunctuation(_, _)
stripPunctuation(s, i) ==
    IF i > Len(s) THEN <<>>
    ELSE (IF s[i] \in {45, 46, 44} THEN <<>> ELSE <<s[i]>>)
         \o stripPunctuation(s, i + 1)

\* the initial normalization (all of cleanupMnemonic in src/encoding.js)
cleaned(mnemonic) ==
    stripPunctuation(
        toLowerCase(collapseSpaces(replaceNewlines(trim(mnemonic)), 1)), 1)

AndWord == <<97, 110, 100>>
FitWord == <<102, 105, 116>>
SpitWord == <<115, 112, 105, 116>>
ImpliesWord == <<105, 109, 112, 108, 105, 101, 115>>
ImplyWord == <<105, 109, 112, 108, 121>>

\* the loop over the words: "and X" -> "enX", "fit" -> "spit", "implies" -> "imply"
RECURSIVE processWords(_, _)
processWords(ws, i) ==
    IF i > Len(ws) THEN <<>>
    ELSE IF /\ ws[i] = AndWord
            /\ i < Len(ws)
            /\ indexOf(<<101, 110>> \o ws[i + 1]) # -1
         THEN <<(<<101, 110>> \o ws[i + 1])>> \o processWords(ws, i + 2)
    ELSE IF ws[i] = FitWord THEN <<SpitWord>> \o processWords(ws, i + 1)
    ELSE IF ws[i] = ImpliesWord THEN <<ImplyWord>> \o processWords(ws, i + 1)
    ELSE <<ws[i]>> \o processWords(ws, i + 1)

cleanupMnemonic(mnemonic) ==
    join(processWords(split(cleaned(mnemonic), 1, <<>>), 1), 1)

strToMnemonic(s) == join(strToWords(s), 1)

mnemonicToStr(mnemonic) == wordsToStr(split(cleanupMnemonic(mnemonic), 1, <<>>))

\* ------------------------------------------------------------------------
\* The caller's catch block (README "Error Handling", test.js)
\* ------------------------------------------------------------------------
\* the texts of the three messages, as code units
NotEnoughWordsText ==      \* "Not enough words to contain data + checksum"
    << 78, 111, 116, 32, 101, 110, 111, 117, 103, 104, 32, 119,
       111, 114, 100, 115, 32, 116, 111, 32, 99, 111, 110, 116,
       97, 105, 110, 32, 100, 97, 116, 97, 32, 43, 32, 99, 104,
       101, 99, 107, 115, 117, 109 >>
InvalidWordPrefix ==       \* "Invalid mnemonic word: '"
    << 73, 110, 118, 97, 108, 105, 100, 32, 109, 110, 101, 109,
       111, 110, 105, 99, 32, 119, 111, 114, 100, 58, 32, 39 >>
InvalidWordSuffix == <<39>>    \* "'"
ChecksumErrorText ==       \* "ChecksumError: invalid RS1024 checksum!"
    << 67, 104, 101, 99, 107, 115, 117, 109, 69, 114, 114, 111,
       114, 58, 32, 105, 110, 118, 97, 108, 105, 100, 32, 82, 83,
       49, 48, 50, 52, 32, 99, 104, 101, 99, 107, 115, 117, 109,
       33 >>
ChecksumErrorName ==       \* "ChecksumError"
    << 67, 104, 101, 99, 107, 115, 117, 109, 69, 114, 114, 111,
       114 >>

\* err.message of a thrown Error
messageText(r) ==
    IF r.message = NotEnoughWords THEN NotEnoughWordsText
    ELSE IF r.message = InvalidWord
    THEN InvalidWordPrefix \o r.word \o InvalidWordSuffix
    ELSE ChecksumErrorText

\* String.prototype.includes(needle)
textIncludes(text, needle) ==
    \E k \in 0..(Len(text) - Len(needle)) :
        SubSeq(text, k + 1, k + Len(needle)) = needle

\* README: if (err.message.includes("ChecksumError")) ... else ...
readmeHandler(r) ==
    IF textIncludes(messageText(r), ChecksumErrorName) THEN "checksum" ELSE "other"

\* test.js: if (err instanceof ChecksumError) ... else ...; test.js neither
\* imports nor declares ChecksumError, so evaluating the name throws
testHandler(r) == "ReferenceError"

\* ------------------------------------------------------------------------
\* encoding.js: heuristicWord
\* ------------------------------------------------------------------------
\* wordlist.includes(word)
includes(word) == indexOf(word) # -1

\* String.prototype.substring(0, n)
substring(word, n) == SubSeq(word, 1, IF n < Len(word) THEN n ELSE Len(word))

\* String.prototype.startsWith(prefix)
startsWith(w, prefix) ==
    Len(prefix) <= Len(w) /\ SubSeq(w, 1, Len(prefix)) = prefix

\* wordlist.filter(w => w.startsWith(prefix)), as the positions it keeps
matches(prefix) == {i \in DOMAIN wordlist : startsWith(wordlist[i], prefix)}

\* heuristicWord without the early return, matching on three letters only
heuristicWord_threeLettersOnly(word) ==
    LET matches3 == matches(substring(word, 3))
    IN  IF matches3 # {} THEN wordlist[firstOf(matches3)] ELSE word

\* heuristicWord trying the three-letter prefix before the four-letter one
heuristicWord_threeFirst(word) ==
    IF includes(word) THEN word
    ELSE LET matches3 == matches(substring(word, 3))
             matches4 == matches(substring(word, 4))
         IN  IF matches3 # {} THEN wordlist[firstOf(matches3)]
             ELSE IF matches4 # {} THEN wordlist[firstOf(matches4)]
             ELSE word

heuristicWord(word) ==
    IF includes(word) THEN word
    ELSE LET matches4 == matches(substring(word, 4))
             matches3 == matches(substring(word, 3))
         IN  IF matches4 # {} THEN wordlist[firstOf(matches4)]
             ELSE IF matches3 # {} THEN wordlist[firstOf(matches3)]
             ELSE word

\* ------------------------------------------------------------------------
\* Inputs of the calls
\* ------------------------------------------------------------------------
\* code units: NUL, 'A', U+00E9, U+FEFF, and the surrogate pair of U+1F600
InputUnits == {0, 65, 233, 65279, 55357, 56832}
Strings == SeqsUpTo(InputUnits, MaxStrLen)

\* two Dictionary words and two tokens that are not: "Academic" and ""
SampleWords == {wordlist[0], wordlist[1023],
                <<65, 99, 97, 100, 101, 109, 105, 99>>, <<>>}
WordLists == SeqsUpTo(SampleWords, MaxWords)

SampleDigits == {0, 1, 512, 1023}
SampleBytes == {0, 1, 65, 128, 255}

\* the strings whose mnemonic is then altered word by word
TamperStrings == SeqsUpTo({65, 233}, MaxTamperLen)

\* the strings whose mnemonic string is then retyped: "", "A", "﻿"
MnemonicStrings == {<<>>, <<65>>, <<65279>>}

\* the tokens given to heuristicWord: every string of 'w', 'a', 'b' up to
\* MaxTokenLen, the named Dictionary words, "and joy" and "and force"
TokenUnits == {119, 97, 98}
AndJoy == <<97, 110, 100, 32, 106, 111, 121>>
AndForce == <<97, 110, 100, 32, 102, 111, 114, 99, 101>>
Tokens ==
    SeqsUpTo(TokenUnits, MaxTokenLen)
        \cup {namedWords[i] : i \in DOMAIN namedWords}
        \cup {AndJoy, AndForce}

\* the words a caller decodes and then handles the failure of: two
\* Dictionary words and the token "ChecksumError"
CallerSampleWords == {wordlist[0], wordlist[108], ChecksumErrorName}
CallerWordLists == SeqsUpTo(CallerSampleWords, MaxCallerWords)

\* the strings given to cleanupMnemonic directly: ' ', newline, ',' and 'A'
CleanupUnits == {32, 10, 44, 65}
CleanupInputs == SeqsUpTo(CleanupUnits, MaxCleanupLen)

\* ------------------------------------------------------------------------
\* State: what the caller holds between calls of the library
\* ------------------------------------------------------------------------
VARIABLES
    pc,         \* the call made last
    origin,     \* where the word list or mnemonic came from
    str,        \* the string given to strToWords or strToMnemonic
    words,      \* the word list: strToWords' result, or the caller's own
    mnemonic,   \* the mnemonic string: strToMnemonic's result, perhaps retyped
    edits,      \* how many changes the retyping made
    res,        \* what wordsToStr or mnemonicToStr yielded
    data,       \* the digits given to create_checksum
    custom,     \* the customization given to create_checksum
    csum,       \* create_checksum's result
    valid,      \* verify_checksum's result
    byteArray,  \* the bytes given to bytesToBase1024
    digits,     \* bytesToBase1024's result
    bytesOut,   \* base1024ToBytes' result
    token,      \* the token given to heuristicWord
    corrected,  \* heuristicWord's result
    again,      \* heuristicWord's result on its own result
    cleanedOut, \* cleanupMnemonic's result
    handler     \* what the caller's catch block made of the error

vars == <<pc, origin, str, words, mnemonic, edits, res, data, custom, csum,
          valid, byteArray, digits, bytesOut, token, corrected, again,
          cleanedOut, handler>>

checksumVars == <<data, custom, csum, valid>>
codecVars == <<byteArray, digits, bytesOut>>
helperVars == <<token, corrected, again, cleanedOut, handler>>

Init ==
    /\ pc = "idle"
    /\ origin = "none"
    /\ str = <<>>
    /\ words = <<>>
    /\ mnemonic = <<>>
    /\ edits = 0
    /\ res = NoResult
    /\ data = <<>>
    /\ custom = <<>>
    /\ csum = <<>>
    /\ valid = FALSE
    /\ byteArray = <<>>
    /\ digits = <<>>
    /\ bytesOut = <<>>
    /\ token = <<>>
    /\ corrected = <<>>
    /\ again = <<>>
    /\ cleanedOut = <<>>
    /\ handler = "none"

\* the caller encodes a string of S
StrToWordsOf(S) ==
    /\ pc = "idle"
    /\ \E s \in S :
        /\ str' = s
        /\ words' = strToWords(s)
    /\ origin' = "encoded"
    /\ pc' = "strToWords"
    /\ UNCHANGED <<mnemonic, edits, res, checksumVars, codecVars, helperVars>>

StrToWords == StrToWordsOf(Strings)

\* the caller brings a word list of its own
SupplyWords ==
    /\ pc = "idle"
    /\ \E ws \in WordLists : words' = ws
    /\ origin' = "supplied"
    /\ pc' = "supplied"
    /\ UNCHANGED <<str, mnemonic, edits, res, checksumVars, codecVars, helperVars>>

\* the caller decodes the word list it holds
WordsToStr ==
    /\ pc \in {"strToWords", "supplied", "substituted"}
    /\ res' = wordsToStr(words)
    /\ pc' = "wordsToStr"
    /\ UNCHANGED <<origin, str, words, mnemonic, edits, checksumVars, codecVars, helperVars>>

\* the checksum engine called directly, with a customization
CreateChecksum ==
    /\ pc = "idle"
    /\ \E d \in SeqsUpTo(SampleDigits, MaxDataLen),
          c \in SeqsUpTo(SampleDigits, MaxCustomLen) :
        /\ data' = d
        /\ custom' = c
        /\ csum' = create_checksum(d, c)
    /\ pc' = "create_checksum"
    /\ UNCHANGED <<origin, str, words, mnemonic, edits, res, valid, codecVars, helperVars>>

VerifyChecksum ==
    /\ pc = "create_checksum"
    /\ valid' = verify_checksum(data \o csum, custom)
    /\ pc' = "verify_checksum"
    /\ UNCHANGED <<origin, str, words, mnemonic, edits, res, data, custom, csum,
                   codecVars, helperVars>>

\* the byte/digit codec called directly
BytesToBase1024 ==
    /\ pc = "idle"
    /\ \E b \in SeqsUpTo(SampleBytes, MaxByteLen) :
        /\ byteArray' = b
        /\ digits' = bytesToBase1024(b)
    /\ pc' = "bytesToBase1024"
    /\ UNCHANGED <<origin, str, words, mnemonic, edits, res, checksumVars, bytesOut, helperVars>>

Base1024ToBytes ==
    /\ pc = "bytesToBase1024"
    /\ bytesOut' = base1024ToBytes(digits)
    /\ pc' = "base1024ToBytes"
    /\ UNCHANGED <<origin, str, words, mnemonic, edits, res, checksumVars,
                   byteArray, digits, helperVars>>

Next ==
    \/ StrToWords
    \/ SupplyWords
    \/ WordsToStr
    \/ CreateChecksum
    \/ VerifyChecksum
    \/ BytesToBase1024
    \/ Base1024ToBytes

Spec == Init /\ [][Next]_vars

\* ------------------------------------------------------------------------
\* A mnemonic in which one word is replaced by another Dictionary word
\* ------------------------------------------------------------------------
StrToWordsTamper == StrToWordsOf(TamperStrings)

Substitute ==
    /\ pc = "strToWords"
    /\ \E i \in 1..Len(words), x \in DOMAIN wordlist :
        /\ wordlist[x] # words[i]
        /\ words' = [words EXCEPT ![i] = wordlist[x]]
    /\ origin' = "substituted"
    /\ pc' = "substituted"
    /\ UNCHANGED <<str, mnemonic, edits, res, checksumVars, codecVars, helperVars>>

NextTamper ==
    \/ StrToWordsTamper
    \/ Substitute
    \/ WordsToStr

SpecTamper == Init /\ [][NextTamper]_vars

\* ------------------------------------------------------------------------
\* The string form: a mnemonic string, retyped by hand, then decoded
\* ------------------------------------------------------------------------
StrToMnemonic ==
    /\ pc = "idle"
    /\ \E s \in MnemonicStrings :
        /\ str' = s
        /\ mnemonic' = strToMnemonic(s)
    /\ origin' = "encoded"
    /\ pc' = "strToMnemonic"
    /\ UNCHANGED <<words, edits, res, checksumVars, codecVars, helperVars>>

InsertAt(s, k, u) == SubSeq(s, 1, k) \o <<u>> \o SubSeq(s, k + 1, Len(s))

\* one change of the kinds a retyped mnemonic shows
Retypings(m) ==
    \* a letter in upper case
    {[m EXCEPT ![k] = m[k] - 32] : k \in {j \in 1..Len(m) : m[j] \in 97..122}}
    \* white space before or after the mnemonic
    \cup {<<u>> \o m : u \in {32, 10}}
    \cup {m \o <<u>> : u \in {32, 10}}
    \* a separator widened by a space or a newline, or turned into a newline
    \cup {InsertAt(m, k, u) : k \in {j \in 1..Len(m) : m[j] = 32}, u \in {32, 10}}
    \cup {[m EXCEPT ![k] = 10] : k \in {j \in 1..Len(m) : m[j] = 32}}
    \* a stray '-', '.' or ',' anywhere
    \cup {InsertAt(m, k, u) : k \in 0..Len(m), u \in {45, 46, 44}}
    \* a separator replaced by '-', '.' or ','
    \cup {[m EXCEPT ![k] = u] : k \in {j \in 1..Len(m) : m[j] = 32}, u \in {45, 46, 44}}

Retype ==
    /\ pc \in {"strToMnemonic", "retyped"}
    /\ edits < MaxEdits
    /\ \E m \in Retypings(mnemonic) : mnemonic' = m
    /\ edits' = edits + 1
    /\ origin' = "retyped"
    /\ pc' = "retyped"
    /\ UNCHANGED <<str, words, res, checksumVars, codecVars, helperVars>>

MnemonicToStr ==
    /\ pc \in {"strToMnemonic", "retyped", "typed"}
    /\ res' = mnemonicToStr(mnemonic)
    /\ pc' = "mnemonicToStr"
    /\ UNCHANGED <<origin, str, words, mnemonic, edits, checksumVars, codecVars, helperVars>>

NextMnemonic ==
    \/ StrToMnemonic
    \/ Retype
    \/ MnemonicToStr

SpecMnemonic == Init /\ [][NextMnemonic]_vars

\* ------------------------------------------------------------------------
\* The word corrector: a token corrected, and the result corrected again
\* ------------------------------------------------------------------------
HeuristicWord ==
    /\ pc = "idle"
    /\ \E w \in Tokens :
        /\ token' = w
        /\ corrected' = heuristicWord(w)
    /\ pc' = "heuristicWord"
    /\ UNCHANGED <<origin, str, words, mnemonic, edits, res, checksumVars,
                   codecVars, again, cleanedOut, handler>>

HeuristicWordAgain ==
    /\ pc = "heuristicWord"
    /\ again' = heuristicWord(corrected)
    /\ pc' = "heuristicWordAgain"
    /\ UNCHANGED <<origin, str, words, mnemonic, edits, res, checksumVars,
                   codecVars, token, corrected, cleanedOut, handler>>

NextHeuristic ==
    \/ HeuristicWord
    \/ HeuristicWordAgain

SpecHeuristic == Init /\ [][NextHeuristic]_vars

\* ------------------------------------------------------------------------
\* A caller that decodes its own words and handles the failure
\* ------------------------------------------------------------------------
CallerWords ==
    /\ pc = "idle"
    /\ \E ws \in CallerWordLists : words' = ws
    /\ origin' = "supplied"
    /\ pc' = "supplied"
    /\ UNCHANGED <<str, mnemonic, edits, res, checksumVars, codecVars, helperVars>>

CallerMnemonic ==
    /\ pc = "idle"
    /\ \E ws \in CallerWordLists : mnemonic' = join(ws, 1)
    /\ origin' = "typed"
    /\ pc' = "typed"
    /\ UNCHANGED <<str, words, edits, res, checksumVars, codecVars, helperVars>>

\* the catch block of the README
CatchReadme ==
    /\ pc \in {"wordsToStr", "mnemonicToStr"}
    /\ res.kind = "throw"
    /\ handler' = readmeHandler(res)
    /\ pc' = "catchReadme"
    /\ UNCHANGED <<origin, str, words, mnemonic, edits, res, checksumVars,
                   codecVars, token, corrected, again, cleanedOut>>

\* the catch block of test.js
CatchTest ==
    /\ pc \in {"wordsToStr", "mnemonicToStr"}
    /\ res.kind = "throw"
    /\ handler' = testHandler(res)
    /\ pc' = "catchTest"
    /\ UNCHANGED <<origin, str, words, mnemonic, edits, res, checksumVars,
                   codecVars, token, corrected, again, cleanedOut>>

NextCaller ==
    \/ CallerWords
    \/ CallerMnemonic
    \/ WordsToStr
    \/ MnemonicToStr
    \/ CatchReadme
    \/ CatchTest

SpecCaller == Init /\ [][NextCaller]_vars

\* ------------------------------------------------------------------------
\* cleanupMnemonic called directly
\* ------------------------------------------------------------------------
CleanupMnemonic ==
    /\ pc = "idle"
    /\ \E m \in CleanupInputs :
        /\ mnemonic' = m
        /\ cleanedOut' = cleanupMnemonic(m)
    /\ pc' = "cleanupMnemonic"
    /\ UNCHANGED <<origin, str, words, edits, res, checksumVars, codecVars,
                   token, corrected, again, handler>>

NextCleanup == CleanupMnemonic

SpecCleanup == Init /\ [][NextCleanup]_vars

\* ------------------------------------------------------------------------
\* Properties
\* ------------------------------------------------------------------------
DictionaryWords == {wordlist[i] : i \in DOMAIN wordlist}

InDictionary(w) == w \in DictionaryWords

AbsentAt(ws) == {i \in 1..Len(ws) : ~InDictionary(ws[i])}

IndicesOf(ws) == [i \in 1..Len(ws) |-> CHOOSE k \in DOMAIN wordlist : wordlist[k] = ws[i]]

NoLeadingZero(b) == b = <<>> \/ b[1] # 0

RECURSIVE DropLeadingZeros(_)
DropLeadingZeros(b) ==
    IF b # <<>> /\ b[1] = 0 THEN DropLeadingZeros(Tail(b)) ELSE b

\* the positions of the Dictionary entries that start with the first n
\* characters of w
EntriesWithPrefix(w, n) ==
    LET m == IF Len(w) < n THEN Len(w) ELSE n
    IN  {i \in DOMAIN wordlist :
            Len(wordlist[i]) >= m /\ \A k \in 1..m : wordlist[i][k] = w[k]}

Lowest(S) == CHOOSE i \in S : \A j \in S : i <= j

\* the k-bit big-endian expansions of the elements of seq, one after another
BitString(seq, k) ==
    [n \in 1..(Len(seq) * k) |->
        (seq[((n - 1) \div k) + 1] \div Pow2(k - 1 - ((n - 1) % k))) % 2]

\* C1: a string whose UTF-8 bytes b do not start with a zero byte, encoded by
\* strToWords and decoded by wordsToStr, comes back without error as a string
\* whose bytes are exactly b.
C1_RoundTrip ==
    (pc = "wordsToStr" /\ origin = "encoded" /\ NoLeadingZero(stringToBytes(str)))
        => (res.kind = "return" /\ stringToBytes(res.value) = stringToBytes(str))

\* C2: for all data digits d and customization c, the sequence d followed by
\* create_checksum(d, c) verifies under c: polymod(c ++ d ++ checksum) = 1.
C2_ChecksumVerifies ==
    pc = "verify_checksum" => (valid /\ _polymod(custom \o data \o csum) = 1)

C2_Witness ==
    pc = "verify_checksum" /\ custom # <<>> /\ Len(data) >= 2 /\ Len(csum) = 3 /\ valid

\* C3: replacing any one word of a mnemonic produced by strToWords, at a data
\* or a checksum position, by any other Dictionary word makes wordsToStr fail
\* with the checksum error.
C3_SubstitutionDetected ==
    (pc = "wordsToStr" /\ origin = "substituted")
        => res = Thrown(ChecksumError, <<>>)

C3_Witness ==
    /\ pc = "wordsToStr"
    /\ origin = "substituted"
    /\ Len(words) >= 5
    /\ words[1] # strToWords(str)[1]
    /\ res.kind = "throw"
    /\ res.message = ChecksumError

\* C4: wordsToStr fails with the insufficient-words error exactly for the word
\* lists of at most 3 words, whatever the words are.
C4_TooFewWords ==
    pc = "wordsToStr"
        => ((res.kind = "throw" /\ res.message = NotEnoughWords) <=> Len(words) <= 3)

C4_Witness ==
    /\ pc = "wordsToStr"
    /\ Len(words) = 3
    /\ ~InDictionary(words[1])
    /\ res = Thrown(NotEnoughWords, <<>>)

\* C5: a word list of at least 4 words with a word that is not in the
\* Dictionary fails with the invalid-word error quoting the first such word in
\* list order, never with the checksum error.
C5_InvalidWord ==
    (pc = "wordsToStr" /\ Len(words) >= 4 /\ AbsentAt(words) # {})
        => res = Thrown(InvalidWord, words[firstOf(AbsentAt(words))])

C5_Witness ==
    /\ pc = "wordsToStr"
    /\ Len(words) = 5
    /\ AbsentAt(words) = {2, 3}
    /\ words[2] # words[3]
    /\ res = Thrown(InvalidWord, words[2])

\* C6: a list of at least 4 Dictionary words is decoded to a string exactly
\* when polymod over its indices is 1 and fails with the checksum error
\* otherwise; nothing is returned for a list whose checksum does not verify.
C6_ChecksumDecides ==
    pc = "wordsToStr" =>
        /\ (Len(words) >= 4 /\ AbsentAt(words) = {}) =>
                IF _polymod(IndicesOf(words)) = 1
                THEN res.kind = "return"
                ELSE res = Thrown(ChecksumError, <<>>)
        /\ res.kind = "return" =>
                /\ Len(words) >= 4
                /\ AbsentAt(words) = {}
                /\ _polymod(IndicesOf(words)) = 1

C6_Witness ==
    /\ pc = "wordsToStr"
    /\ origin = "supplied"
    /\ Len(words) >= 4
    /\ AbsentAt(words) = {}
    /\ res = Thrown(ChecksumError, <<>>)

\* C7: for a string s whose UTF-8 bytes do not start with a zero byte,
\* mnemonicToStr(strToMnemonic(s)) returns exactly s.
C7_StringRoundTrip ==
    (pc = "mnemonicToStr" /\ origin = "encoded" /\ NoLeadingZero(stringToBytes(str)))
        => res = Returned(str)

\* C8: a mnemonic string retyped with other letter case, surrounding white
\* space, wider separators or stray '-', '.' and ',' (also in place of a
\* separator) decodes to what the mnemonic as produced decodes to.
C8_RetypedDecodesAlike ==
    (pc = "mnemonicToStr" /\ origin = "retyped")
        => res = mnemonicToStr(strToMnemonic(str))

\* C9: the empty string encodes to 4 words, Dictionary[0] followed by the 3
\* checksum words of the digits [0], and these decode to the empty string.
C9_EmptyInput ==
    /\ (pc = "strToWords" /\ str = <<>>) =>
            /\ Len(words) = 4
            /\ words[1] = wordlist[0]
            /\ \A k \in 1..3 : words[k + 1] = wordlist[create_checksum(<<0>>, <<>>)[k]]
            /\ words = <<wordlist[0], wordlist[108], wordlist[272], wordlist[897]>>
    /\ (pc = "wordsToStr" /\ origin = "encoded" /\ str = <<>>) => res = Returned(<<>>)

C9_Witness ==
    /\ pc = "wordsToStr"
    /\ origin = "encoded"
    /\ str = <<>>
    /\ Len(words) = 4
    /\ res.kind = "return"

C11_HeuristicIdempotent ==
    /\ pc = "heuristicWordAgain" => again = corrected
    /\ (pc \in {"heuristicWord", "heuristicWordAgain"} /\ InDictionary(token))
            => corrected = token

C11_Witness ==
    /\ pc = "heuristicWordAgain"
    /\ ~InDictionary(token)
    /\ corrected # token
    /\ again = corrected

\* C12: a token that is not in the Dictionary is corrected to the lowest-index
\* entry starting with its first 4 characters if there is one, else to the
\* lowest-index entry starting with its first 3 characters if there is one,
\* else it is returned unchanged; a 4-character match wins over a
\* 3-character match of lower index.
C12_SelectionRule ==
    (pc = "heuristicWord" /\ ~InDictionary(token)) =>
        IF EntriesWithPrefix(token, 4) # {}
        THEN corrected = wordlist[Lowest(EntriesWithPrefix(token, 4))]
        ELSE IF EntriesWithPrefix(token, 3) # {}
        THEN corrected = wordlist[Lowest(EntriesWithPrefix(token, 3))]
        ELSE corrected = token

C12_Witness ==
    /\ pc = "heuristicWord"
    /\ ~InDictionary(token)
    /\ EntriesWithPrefix(token, 4) # {}
    /\ Lowest(EntriesWithPrefix(token, 3)) < Lowest(EntriesWithPrefix(token, 4))
    /\ corrected = wordlist[Lowest(EntriesWithPrefix(token, 4))]

\* C13: heuristicWord given the two-token string "and X" returns the single
\* word "enX" whenever "enX" is a Dictionary entry ("and joy" gives "enjoy").
C13_AndJoy ==
    (/\ pc = "heuristicWord"
     /\ Len(token) > 4
     /\ SubSeq(token, 1, 4) = <<97, 110, 100, 32>>
     /\ InDictionary(<<101, 110>> \o SubSeq(token, 5, Len(token))))
        => corrected = <<101, 110>> \o SubSeq(token, 5, Len(token))

\* C14: a decoding failure is recognised by the caller as a checksum error
\* (message containing "ChecksumError" in the README's handler, an error of
\* kind ChecksumError in test.js' handler) exactly when the list had at least
\* 4 words, all of them Dictionary entries, and the checksum did not verify;
\* a too-few-words or invalid-word failure is never recognised as one.
C14_ChecksumErrorRecognised ==
    pc \in {"catchReadme", "catchTest"} =>
        LET ws == IF origin = "typed"
                  THEN split(cleanupMnemonic(mnemonic), 1, <<>>)
                  ELSE words
        IN  handler = "checksum"
                <=> (/\ Len(ws) >= 4
                     /\ AbsentAt(ws) = {}
                     /\ _polymod(IndicesOf(ws)) # 1)

\* C15: the result of cleanupMnemonic has no leading or trailing white space,
\* no newline, no two consecutive spaces, no upper-case letter and none of
\* '-', '.', ','.
C15_CleanupFormat ==
    pc = "cleanupMnemonic" =>
        /\ cleanedOut # <<>> =>
                /\ ~IsWhiteSpace(cleanedOut[1])
                /\ ~IsWhiteSpace(cleanedOut[Len(cleanedOut)])
        /\ \A k \in 1..Len(cleanedOut) :
                /\ cleanedOut[k] # 10
                /\ cleanedOut[k] \notin 65..90
                /\ cleanedOut[k] \notin {45, 46, 44}
        /\ \A k \in 1..(Len(cleanedOut) - 1) :
                ~(cleanedOut[k] = 32 /\ cleanedOut[k + 1] = 32)

\* C16: strToWords returns the words of D ++ C, where D is the canonical
\* big-endian base-1024 digit sequence of the integer the UTF-8 bytes spell
\* (digits in 0..1023, first digit nonzero unless D = [0]) and C is
\* create_checksum(D, []), 3 digits in 0..1023: at least 4 words, all of them
\* Dictionary entries, the last 3 the checksum of the preceding ones.
C16_EncodeStructure ==
    pc = "strToWords" =>
        /\ Len(words) >= 4
        /\ AbsentAt(words) = {}
        /\ LET idx == IndicesOf(words)
               D == SubSeq(idx, 1, Len(words) - 3)
               C == SubSeq(idx, Len(words) - 2, Len(words))
           IN  /\ \A k \in 1..Len(idx) : idx[k] \in 0..1023
               /\ D = <<0>> \/ D[1] # 0
               /\ DropLeadingZeros(BitString(D, 10))
                    = DropLeadingZeros(BitString(stringToBytes(str), 8))
               /\ Len(C) = 3
               /\ C = create_checksum(D, <<>>)
               /\ _polymod(D \o C) = 1

C16_Witness ==
    /\ pc = "strToWords"
    /\ Len(str) = 3
    /\ str[1] = 233
    /\ Len(stringToBytes(str)) >= 5
    /\ Len(words) = 3 + Len(bytesToBase1024(stringToBytes(str)))
    /\ Len(words) >= 7
====
